---------------------------- MODULE Spec2Model ----------------------------
(***************************************************************************)
(* Model of xml_splitter_app_codellama_chroma.py: the "Split Node" handler *)
(* of main() and the functions it calls (split_xml_node, ask_codellama,    *)
(* explain_changes), with the Chroma collection as the persistence store.  *)
(*                                                                         *)
(* Markup is modelled as a sequence of lexical tokens (open tag, close     *)
(* tag, character); a tree is an arena of element records indexed by node  *)
(* id.  Elements of the input document have ids 1..n (1 is the root);      *)
(* an element parsed from the model response has the id -p, p being the    *)
(* position of its open tag in the response.                               *)
(***************************************************************************)
EXTENDS Integers, Sequences, FiniteSets, TLC

\* Largest number of elements of an input document.
MaxNodes == 3
\* Largest number of chunks a categorization response is made of.
MaxChunks == 3
\* Largest number of "Split Node" clicks in one behaviour of SpecStore.
MaxRuns == 3

-----------------------------------------------------------------------------
(* Markup tokens *)

Open(t) == [k |-> "open", v |-> t]
Close(t) == [k |-> "close", v |-> t]
Char(c) == [k |-> "char", v |-> c]

\* The characters of text content: "x" is a visible character, " " is
\* whitespace (what str.strip() removes).
Whitespace == {" "}

\* Text as the sequence of its characters.
Chars(txt) == [i \in 1..Len(txt) |-> Char(txt[i])]

\* Tags of the elements of input documents.
DocTags == {"a", "b"}

RECURSIVE Concat(_)
Concat(ss) == IF ss = <<>> THEN <<>> ELSE Head(ss) \o Concat(Tail(ss))

\* The pieces a response of the text-generation service is made of: single
\* tokens, and two complete category elements (one with content, one with
\* whitespace only).
Chunks ==
  { <<Open("task")>>, <<Close("task")>>, <<Close("offer")>>,
    <<Char("x")>>, <<Char(" ")>>,
    <<Open("task"), Char("x"), Close("task")>>,
    <<Open("offer"), Char(" "), Close("offer")>> }

RECURSIVE SeqsUpTo(_, _)
SeqsUpTo(S, n) ==
  IF n = 0 THEN {<<>>}
  ELSE LET shorter == SeqsUpTo(S, n - 1)
       IN shorter \cup {Append(s, x) : s \in shorter, x \in S}

\* result["response"] of a successful generate call.
Responses == {Concat(cs) : cs \in SeqsUpTo(Chunks, MaxChunks)}

-----------------------------------------------------------------------------
(* Trees *)

NoMarkup == <<>>

\* An element of an input document: tag, text, parent (0 for the root) and
\* ordered children.  markup and tail are used by elements that came from a
\* parsed response (their subtree is kept as the tokens it was parsed from).
DocElement(tag, parent, kids) ==
  [tag |-> tag, text |-> <<"x">>, parent |-> parent, kids |-> kids,
   markup |-> NoMarkup, tail |-> <<>>]

SortedSeq(S) ==
  CHOOSE s \in [1..Cardinality(S) -> S] :
    \A i, j \in 1..Cardinality(S) : i < j => s[i] < s[j]

\* Every document of n elements: element i > 1 hangs under an earlier
\* element, siblings are ordered by id.
DocsOfSize(n) ==
  { [i \in 1..n |->
       DocElement(tg[i], par[i], SortedSeq({c \in 1..n : par[c] = i}))] :
      tg \in [1..n -> DocTags],
      par \in {p \in [1..n -> 0..n] :
                 p[1] = 0 /\ \A i \in 2..n : p[i] \in 1..(i - 1)} }

Docs == UNION {DocsOfSize(n) : n \in 1..MaxNodes}

RootId == 1

\* Elements in document order (pre-order), from element n down.
RECURSIVE Preorder(_, _)
RECURSIVE PreorderAll(_, _)
Preorder(t, n) == <<n>> \o PreorderAll(t, t[n].kids)
PreorderAll(t, ks) ==
  IF ks = <<>> THEN <<>> ELSE Preorder(t, Head(ks)) \o PreorderAll(t, Tail(ks))

\* etree.tostring(root): the markup of the subtree of n.
RECURSIVE tostring(_, _)
RECURSIVE tostringAll(_, _)
tostring(t, n) ==
  IF t[n].markup # NoMarkup THEN t[n].markup \o Chars(t[n].tail)
  ELSE <<Open(t[n].tag)>> \o Chars(t[n].text) \o tostringAll(t, t[n].kids)
         \o <<Close(t[n].tag)>>
tostringAll(t, ks) ==
  IF ks = <<>> THEN <<>> ELSE tostring(t, Head(ks)) \o tostringAll(t, Tail(ks))

-----------------------------------------------------------------------------
(* etree.fromstring without recover: the strict parse of a response *)

ParseError == [ok |-> FALSE, elems |-> <<>>]

ReplaceLast(s, e) == [s EXCEPT ![Len(s)] = e]

\* One pass over the tokens of "<root>" + toks + "</root>".  stack holds the
\* tags open inside <root>; elems the children of <root> read so far; lead
\* says that characters still belong to the .text of the last child (it is
\* open and no element has started inside it).
RECURSIVE Scan(_, _, _, _, _)
Scan(toks, i, stack, elems, lead) ==
  IF i > Len(toks) THEN
    IF stack = <<>> THEN [ok |-> TRUE, elems |-> elems] ELSE ParseError
  ELSE
    LET tok == toks[i]
        last == elems[Len(elems)]
    IN CASE tok.k = "open" ->
              IF stack = <<>>
              THEN Scan(toks, i + 1, <<tok.v>>,
                        Append(elems, [id |-> 0 - i, tag |-> tok.v, text |-> <<>>,
                                       start |-> i, end |-> 0, tail |-> <<>>]),
                        TRUE)
              ELSE Scan(toks, i + 1, Append(stack, tok.v), elems, FALSE)
         [] tok.k = "close" ->
              IF stack = <<>> \/ stack[Len(stack)] # tok.v THEN ParseError
              ELSE IF Len(stack) = 1
              THEN Scan(toks, i + 1, <<>>,
                        ReplaceLast(elems, [last EXCEPT !.end = i]), FALSE)
              ELSE Scan(toks, i + 1, SubSeq(stack, 1, Len(stack) - 1), elems, FALSE)
         [] OTHER ->
              IF lead
              THEN Scan(toks, i + 1, stack,
                        ReplaceLast(elems, [last EXCEPT !.text = Append(@, tok.v)]),
                        lead)
              ELSE IF stack = <<>> /\ elems # <<>>
              THEN Scan(toks, i + 1, stack,
                        ReplaceLast(elems, [last EXCEPT !.tail = Append(@, tok.v)]),
                        lead)
              ELSE Scan(toks, i + 1, stack, elems, lead)

\* etree.fromstring(f"<root>{split_content}</root>"): the children of the
\* synthetic root in the order of the response, or a syntax error.
fromstring(toks) ==
  LET r == Scan(toks, 1, <<>>, <<>>, FALSE)
  IN IF ~r.ok THEN ParseError
     ELSE [ok |-> TRUE,
           elems |-> [n \in 1..Len(r.elems) |->
                        [id |-> r.elems[n].id,
                         tag |-> r.elems[n].tag,
                         text |-> r.elems[n].text,
                         markup |-> SubSeq(toks, r.elems[n].start, r.elems[n].end),
                         tail |-> r.elems[n].tail]]]

\* "element.text" alone: any text, whitespace included.
HasTextUnstripped(element) == element.text # <<>>

\* "element.text and element.text.strip()": the text has a character that
\* is not whitespace.
HasText(element) == \E n \in 1..Len(element.text) : element.text[n] \notin Whitespace

-----------------------------------------------------------------------------
(* root.xpath(node_path) *)

NoPath == [text |-> "", valid |-> FALSE, axis |-> "", name |-> ""]

\* The path expressions tried: every element named a; the children of the
\* root named a; an expression with an unbalanced bracket.
Paths ==
  { [text |-> "//a", valid |-> TRUE, axis |-> "descendant", name |-> "a"],
    [text |-> "/*/a", valid |-> TRUE, axis |-> "child", name |-> "a"],
    [text |-> "//a[", valid |-> FALSE, axis |-> "", name |-> ""] }

\* The node-set of a valid expression, in document order.
xpath(t, p) ==
  LET HasName(n) == t[n].tag = p.name
  IN IF p.axis = "descendant" THEN SelectSeq(Preorder(t, RootId), HasName)
     ELSE SelectSeq(t[RootId].kids, HasName)

\* "[-1]": the last node of the node-set.
LastMatch(matches) == matches[Len(matches)]

\* "[0]": the first node of the node-set.
FirstMatch(matches) == matches[1]

\* parent.index(node): the position of node among the children (from 1).
IndexOf(kids, n) == CHOOSE i \in 1..Len(kids) : kids[i] = n

\* parent.remove(node)
Remove(kids, n) == SelectSeq(kids, LAMBDA c : c # n)

\* parent.append(element)
InsertAtEnd(kids, i, e) == Append(kids, e)

\* parent.insert(index, element), index counted from 1.
Insert(kids, i, e) == SubSeq(kids, 1, i - 1) \o <<e>> \o SubSeq(kids, i, Len(kids))

-----------------------------------------------------------------------------
(* The failures split_xml_node raises, by what main's handler is given *)

NoError == ""
\* root.xpath(node_path) on an invalid expression (line 22).
InvalidPathExpression == "XPathEvalError: Invalid expression"
\* [0] on an empty node-set (line 22).
NodeNotFound == "IndexError: list index out of range"
\* line 52
ModelUnavailable == "Failed to get a response from CodeLlama"
\* line 58
InvalidModelOutput == "CodeLlama returned invalid XML"
\* parent.index(node) with parent None (line 62).
CannotSplitRoot == "AttributeError: 'NoneType' object has no attribute 'index'"

\* What one call of the generate endpoint can end as.
GatewayFailures == {"transport", "status", "nofield"}

-----------------------------------------------------------------------------
(* State *)

VARIABLES
  pc,             \* where the "Split Node" handler stands
  xml_content,    \* the document entered, as the tree its text parses to
  node_path,      \* the path expression entered
  root,           \* split_xml_node's tree (lines 20-69)
  node,           \* the target element (line 22), 0 before it is located
  index,          \* line 62 and 67: where the next replacement goes (from 1)
  split_content,  \* the categorization response (line 50)
  split_root,     \* the children of the parsed response (line 56)
  cursor,         \* the element of split_root the loop of line 64 is at
  new_xml,        \* what split_xml_node returned (line 131)
  err,            \* the exception split_xml_node raised, NoError if none
  ui,             \* what the page shows, in order
  calls,          \* the requests sent to the generate endpoint, in order
  store,          \* the records of the collection, in the order added
  runs            \* "Split Node" clicks so far

vars == <<pc, xml_content, node_path, root, node, index, split_content,
          split_root, cursor, new_xml, err, ui, calls, store, runs>>

NoDoc == <<>>
NoText == <<>>

Init ==
  /\ pc = "idle"
  /\ xml_content = NoDoc
  /\ node_path = NoPath
  /\ root = NoDoc
  /\ node = 0
  /\ index = 0
  /\ split_content = NoText
  /\ split_root = <<>>
  /\ cursor = 0
  /\ new_xml = NoText
  /\ err = NoError
  /\ ui = <<>>
  /\ calls = <<>>
  /\ store = <<>>
  /\ runs = 0

\* An exception leaves split_xml_node and reaches "except Exception as e"
\* (lines 160-161): the message is shown and the handler is over.
Raise(e) ==
  /\ err' = e
  /\ ui' = Append(ui, [kind |-> "error", text |-> e])
  /\ pc' = "done"

\* ask_codellama (lines 72-90): one request; a transport error, a bad status
\* and a body without "response" are each shown with st.error and None is
\* returned.
GatewayLog(purpose, outcome) == Append(calls, [purpose |-> purpose, outcome |-> outcome])

GatewayError(outcome) == [kind |-> "error", text |-> outcome]

-----------------------------------------------------------------------------
(* The handler of the "Split Node" button, step by step *)

\* Lines 119-131 and 16-20: the page is run again with the inputs entered
\* and the button pressed; with both inputs given the document is parsed.
Submit(docs, paths, maxRuns) ==
  /\ pc \in {"idle", "done"}
  /\ runs < maxRuns
  /\ \E d \in docs \cup {NoDoc}, p \in paths \cup {NoPath} :
       /\ xml_content' = d
       /\ node_path' = p
       /\ IF d = NoDoc \/ p = NoPath
          THEN /\ pc' = "done"
               /\ ui' = <<[kind |-> "warning",
                           text |-> "Please enter both XML content and node path."]>>
               /\ root' = NoDoc
          ELSE /\ pc' = "locate"
               /\ ui' = <<>>
               /\ root' = d
  /\ runs' = runs + 1
  /\ node' = 0
  /\ index' = 0
  /\ split_content' = NoText
  /\ split_root' = <<>>
  /\ cursor' = 0
  /\ new_xml' = NoText
  /\ err' = NoError
  /\ calls' = <<>>
  /\ UNCHANGED store

\* Line 22 with an empty node-set passed over in silence.
LocateSilently ==
  /\ pc = "locate"
  /\ IF ~node_path.valid
     THEN Raise(InvalidPathExpression) /\ UNCHANGED node
     ELSE IF xpath(root, node_path) = <<>>
     THEN /\ pc' = "done"
          /\ UNCHANGED <<node, err, ui>>
     ELSE /\ node' = FirstMatch(xpath(root, node_path))
          /\ pc' = "ask"
          /\ UNCHANGED <<err, ui>>
  /\ UNCHANGED <<xml_content, node_path, root, index, split_content, split_root,
                 cursor, new_xml, calls, store, runs>>

\* Line 22: node = root.xpath(node_path)[0]
Locate ==
  /\ pc = "locate"
  /\ IF ~node_path.valid
     THEN Raise(InvalidPathExpression) /\ UNCHANGED node
     ELSE IF xpath(root, node_path) = <<>>
     THEN Raise(NodeNotFound) /\ UNCHANGED node
     ELSE /\ node' = FirstMatch(xpath(root, node_path))
          /\ pc' = "ask"
          /\ UNCHANGED <<err, ui>>
  /\ UNCHANGED <<xml_content, node_path, root, index, split_content, split_root,
                 cursor, new_xml, calls, store, runs>>

\* Lines 50-52 with a failed request sent once more.
AskCategorizeRetrying(responses) ==
  /\ pc = "ask"
  /\ \/ \E f \in GatewayFailures, g \in GatewayFailures :
          /\ calls' = calls \o <<[purpose |-> "categorize", outcome |-> f],
                                 [purpose |-> "categorize", outcome |-> g]>>
          /\ err' = ModelUnavailable
          /\ ui' = ui \o <<GatewayError(f), GatewayError(g),
                           [kind |-> "error", text |-> ModelUnavailable]>>
          /\ pc' = "done"
          /\ UNCHANGED split_content
     \/ \E r \in responses :
          /\ calls' = GatewayLog("categorize", "ok")
          /\ split_content' = r
          /\ pc' = "parse"
          /\ UNCHANGED <<err, ui>>
  /\ UNCHANGED <<xml_content, node_path, root, node, index, split_root, cursor,
                 new_xml, store, runs>>

\* Lines 50-52: the categorization request.
AskCategorize(responses) ==
  /\ pc = "ask"
  /\ \/ \E f \in GatewayFailures :
          /\ calls' = GatewayLog("categorize", f)
          /\ err' = ModelUnavailable
          /\ ui' = ui \o <<GatewayError(f), [kind |-> "error", text |-> ModelUnavailable]>>
          /\ pc' = "done"
          /\ UNCHANGED split_content
     \/ \E r \in responses :
          /\ calls' = GatewayLog("categorize", "ok")
          /\ split_content' = r
          /\ pc' = "parse"
          /\ UNCHANGED <<err, ui>>
  /\ UNCHANGED <<xml_content, node_path, root, node, index, split_root, cursor,
                 new_xml, store, runs>>

\* Lines 55-58 with recover=True: a response that is not well-formed
\* parses to what could be recovered (here: nothing).
ParseRecovering ==
  /\ pc = "parse"
  /\ split_root' = fromstring(split_content).elems
  /\ pc' = "remove"
  /\ UNCHANGED <<xml_content, node_path, root, node, index, split_content, cursor,
                 new_xml, err, ui, calls, store, runs>>

\* Lines 55-58 placed after the removal of line 63: a response that is
\* rejected leaves the tree without the target.
ParseAfterRemoval ==
  /\ pc = "parse"
  /\ IF fromstring(split_content).ok
     THEN /\ split_root' = fromstring(split_content).elems
          /\ pc' = "remove"
          /\ UNCHANGED <<err, ui, root>>
     ELSE /\ Raise(InvalidModelOutput)
          /\ root' = IF root[node].parent = 0 THEN root
                     ELSE [root EXCEPT ![root[node].parent].kids = Remove(@, node)]
          /\ UNCHANGED split_root
  /\ UNCHANGED <<xml_content, node_path, node, index, split_content, cursor,
                 new_xml, calls, store, runs>>

\* Lines 55-58: the strict parse of the wrapped response.
Parse ==
  /\ pc = "parse"
  /\ IF fromstring(split_content).ok
     THEN /\ split_root' = fromstring(split_content).elems
          /\ pc' = "remove"
          /\ UNCHANGED <<err, ui>>
     ELSE Raise(InvalidModelOutput) /\ UNCHANGED split_root
  /\ UNCHANGED <<xml_content, node_path, root, node, index, split_content, cursor,
                 new_xml, calls, store, runs>>

\* Lines 61-63: the parent, the target's position in it, the removal.
RemoveTarget ==
  /\ pc = "remove"
  /\ LET parent == root[node].parent
     IN IF parent = 0
        THEN Raise(CannotSplitRoot) /\ UNCHANGED <<root, index, cursor>>
        ELSE /\ index' = IndexOf(root[parent].kids, node)
             /\ root' = [root EXCEPT ![parent].kids = Remove(@, node)]
             /\ cursor' = 1
             /\ pc' = "insert"
             /\ UNCHANGED <<err, ui>>
  /\ UNCHANGED <<xml_content, node_path, node, split_content, split_root, new_xml,
                 calls, store, runs>>

\* The element moved into the tree under parent.
Adopted(element, parent) ==
  [tag |-> element.tag, text |-> element.text, parent |-> parent, kids |-> <<>>,
   markup |-> element.markup, tail |-> element.tail]

\* Line 67
NextIndex(i) == i + 1

\* Lines 64-67: one turn of the loop over the children of the parsed
\* response (the iterator has read the next sibling before the body moves
\* the current one, so every child gets its turn).
InsertElement ==
  /\ pc = "insert"
  /\ cursor <= Len(split_root)
  /\ LET element == split_root[cursor]
         parent == root[node].parent
     IN IF HasText(element)
        THEN /\ root' = [n \in DOMAIN root \cup {element.id} |->
                           IF n = element.id THEN Adopted(element, parent)
                           ELSE IF n = parent
                           THEN [root[n] EXCEPT !.kids = Insert(@, index, element.id)]
                           ELSE root[n]]
             /\ index' = NextIndex(index)
        ELSE UNCHANGED <<root, index>>
  /\ cursor' = cursor + 1
  /\ UNCHANGED <<pc, xml_content, node_path, node, split_content, split_root,
                 new_xml, err, ui, calls, store, runs>>

\* Line 69 and 131: the tree is serialized and returned to main.
Return ==
  /\ pc = "insert"
  /\ cursor > Len(split_root)
  /\ new_xml' = tostring(root, RootId)
  /\ pc' = "store"
  /\ UNCHANGED <<xml_content, node_path, root, node, index, split_content,
                 split_root, cursor, err, ui, calls, store, runs>>

\* The path alone as the id.
PathAsId(path, n) == path

\* Line 137: f"{node_path}_{len(collection.get()['ids'])}"
MakeId(path, n) == path \o "_" \o ToString(n)

\* Lines 134-138: collection.add
StoreAdd ==
  /\ pc = "store"
  /\ store' = Append(store,
       [id |-> MakeId(node_path.text, Len(store)),
        document |-> new_xml,
        metadata |-> [original_xml |-> tostring(xml_content, RootId),
                      node_path |-> node_path.text]])
  /\ pc' = "display"
  /\ UNCHANGED <<xml_content, node_path, root, node, index, split_content,
                 split_root, cursor, new_xml, err, ui, calls, runs>>

\* Lines 141-151: the result, and the before and after columns.
Display ==
  /\ pc = "display"
  /\ ui' = ui \o <<[kind |-> "result", text |-> new_xml],
                   [kind |-> "before", text |-> tostring(xml_content, RootId)],
                   [kind |-> "after", text |-> new_xml]>>
  /\ pc' = "explain"
  /\ UNCHANGED <<xml_content, node_path, root, node, index, split_content,
                 split_root, cursor, new_xml, err, calls, store, runs>>

\* Lines 154-158 with a failed explanation request raised like a failed
\* categorization request.
ExplainEscalating ==
  /\ pc = "explain"
  /\ \/ \E f \in GatewayFailures :
          /\ calls' = GatewayLog("explain", f)
          /\ ui' = ui \o <<GatewayError(f), [kind |-> "error", text |-> ModelUnavailable]>>
          /\ err' = ModelUnavailable
     \/ /\ calls' = GatewayLog("explain", "ok")
        /\ ui' = Append(ui, [kind |-> "explanation", text |-> "changes"])
        /\ UNCHANGED err
  /\ pc' = "done"
  /\ UNCHANGED <<xml_content, node_path, root, node, index, split_content,
                 split_root, cursor, new_xml, store, runs>>

\* Lines 154-158 and 93-112: the explanation request; None shows nothing
\* more than ask_codellama's own message.
Explain ==
  /\ pc = "explain"
  /\ \/ \E f \in GatewayFailures :
          /\ calls' = GatewayLog("explain", f)
          /\ ui' = Append(ui, GatewayError(f))
     \/ /\ calls' = GatewayLog("explain", "ok")
        /\ ui' = Append(ui, [kind |-> "explanation", text |-> "changes"])
  /\ pc' = "done"
  /\ UNCHANGED <<xml_content, node_path, root, node, index, split_content,
                 split_root, cursor, new_xml, err, store, runs>>

Next ==
  \/ Submit(Docs, Paths, 1)
  \/ Locate
  \/ AskCategorize(Responses)
  \/ Parse
  \/ RemoveTarget
  \/ InsertElement
  \/ Return
  \/ StoreAdd
  \/ Display
  \/ Explain

\* One click of "Split Node", on any document and path within the bounds.
Spec == Init /\ [][Next]_vars

\* The inputs of SpecStore: the documents of two elements, and a response
\* that is not well-formed, one with a category, one with a blank category.
StoreDocs == DocsOfSize(2)

StoreResponses ==
  { <<Open("task")>>,
    <<Open("task"), Char("x"), Close("task")>>,
    <<Open("offer"), Char(" "), Close("offer")>> }

NextStore ==
  \/ Submit(StoreDocs, Paths, MaxRuns)
  \/ Locate
  \/ AskCategorize(StoreResponses)
  \/ Parse
  \/ RemoveTarget
  \/ InsertElement
  \/ Return
  \/ StoreAdd
  \/ Display
  \/ Explain

\* Up to MaxRuns clicks of "Split Node", one after another, on one store.
SpecStore == Init /\ [][NextStore]_vars

-----------------------------------------------------------------------------
(* What the properties speak of *)

\* split_xml_node has returned a document to main.
SplitReturned ==
  /\ pc \in {"store", "display", "explain", "done"}
  /\ node # 0
  /\ err = NoError

\* The parent of the target in the document as entered, its children then
\* and now.
TargetParent == xml_content[node].parent
OriginalSiblings == xml_content[TargetParent].kids
CurrentSiblings == root[TargetParent].kids
TargetIndex == IndexOf(OriginalSiblings, node)

\* The children that came from the response, in the order they stand.
FromResponse(n) == n < 0
Replacements == SelectSeq(CurrentSiblings, FromResponse)

\* Text that is empty or whitespace only.
IsBlank(txt) == \A n \in 1..Len(txt) : txt[n] = " "

\* The elements of the subtree of n in tree t.
Subtree(t, n) == {Preorder(t, n)[i] : i \in 1..Len(Preorder(t, n))}

Position(s, x) == CHOOSE i \in 1..Len(s) : s[i] = x

Range(s) == {s[i] : i \in 1..Len(s)}

-----------------------------------------------------------------------------
\* C1: after a successful split of the child at index i in which k elements
\* were inserted, the parent's children i .. i+k-1 are the inserted elements,
\* contiguous and in the order of the response; the siblings before i are
\* where they were; the siblings after i have moved by exactly k-1.
C1_SpliceKeepsSiblingOrder ==
  SplitReturned =>
    LET i == TargetIndex
        k == Len(Replacements)
    IN /\ Len(CurrentSiblings) = Len(OriginalSiblings) - 1 + k
       /\ \A q \in 1..k :
            /\ CurrentSiblings[i + q - 1] = Replacements[q]
            /\ \E e \in Range(split_root) : e.id = Replacements[q]
       /\ \A q \in 1..(k - 1) : 0 - Replacements[q] < 0 - Replacements[q + 1]
       /\ \A p \in 1..(i - 1) : CurrentSiblings[p] = OriginalSiblings[p]
       /\ \A p \in (i + 1)..Len(OriginalSiblings) :
            CurrentSiblings[p + k - 1] = OriginalSiblings[p]

\* Two elements were inserted in front of a sibling that followed the target.
C1_Witness ==
  /\ SplitReturned
  /\ Len(Replacements) = 2
  /\ TargetIndex = 1
  /\ Len(OriginalSiblings) = 2
  /\ CurrentSiblings[3] = OriginalSiblings[2]

\* C2: after a successful split no element of the response with empty or
\* whitespace-only text is in the tree; the elements spliced in are at most
\* the elements of the response with text; and a response that parses never
\* makes the split of a non-root target fail, whatever is skipped.
C2_BlankReplacementsSkipped ==
  /\ SplitReturned =>
       /\ \A n \in DOMAIN root : FromResponse(n) => ~IsBlank(root[n].text)
       /\ \A j \in 1..Len(split_root) :
            IsBlank(split_root[j].text) => split_root[j].id \notin Range(CurrentSiblings)
       /\ Len(Replacements)
            <= Cardinality({j \in 1..Len(split_root) : ~IsBlank(split_root[j].text)})
  /\ (/\ pc = "done"
      /\ node # 0
      /\ TargetParent # 0
      /\ calls # <<>>
      /\ calls[1].outcome = "ok"
      /\ fromstring(split_content).ok) => err = NoError

\* Every element of the response was blank and the split succeeded with
\* nothing inserted.
C2_Witness ==
  /\ SplitReturned
  /\ pc = "done"
  /\ split_root # <<>>
  /\ \A j \in 1..Len(split_root) : IsBlank(split_root[j].text)
  /\ Replacements = <<>>

\* C3: a categorization response that the strict parse rejects makes the
\* split fail with InvalidModelOutput; the target is neither removed nor
\* replaced and no document other than the original reaches the caller.
C3_InvalidModelOutput ==
  (/\ pc = "done"
   /\ calls # <<>>
   /\ calls[1].outcome = "ok"
   /\ ~fromstring(split_content).ok)
  => /\ err = InvalidModelOutput
     /\ root = xml_content
     /\ new_xml = NoText
     /\ store = <<>>
     /\ \A i \in 1..Len(ui) : ui[i].kind = "error"

\* The response was an unclosed tag.
C3_Witness ==
  /\ pc = "done"
  /\ split_content = <<Open("task"), Char("x")>>
  /\ err = InvalidModelOutput
  /\ root[node].parent # 0

\* C4: a path that resolves to the document root makes the split fail with
\* CannotSplitRoot, nothing is removed or inserted and no document is
\* returned.
C4_RootRejected ==
  (pc = "done" /\ node # 0 /\ xml_content[node].parent = 0)
  => /\ err = CannotSplitRoot
     /\ root = xml_content
     /\ new_xml = NoText

\* C5: a path that matches nothing fails with NodeNotFound and an invalid
\* path with InvalidPathExpression, before any request to the gateway and
\* any change of the tree, and the caller is shown the failure, not a
\* document.
C5_LocateFailures ==
  (/\ pc = "done"
   /\ xml_content # NoDoc
   /\ node_path # NoPath
   /\ (node_path.valid => xpath(xml_content, node_path) = <<>>))
  => /\ err = (IF node_path.valid THEN NodeNotFound ELSE InvalidPathExpression)
     /\ calls = <<>>
     /\ root = xml_content
     /\ new_xml = NoText
     /\ store = <<>>
     /\ ui = <<[kind |-> "error", text |-> err]>>

\* A valid path matched no element of the document.
C5_Witness ==
  /\ pc = "done"
  /\ xml_content # NoDoc
  /\ node_path.valid
  /\ xpath(xml_content, node_path) = <<>>
  /\ err = NodeNotFound

\* The tree is fully spliced: the target is gone and every element of the
\* response with text stands where the target stood, in order.
TextElements == SelectSeq(split_root, LAMBDA e : ~IsBlank(e.text))

FullySpliced ==
  CurrentSiblings =
    SubSeq(OriginalSiblings, 1, TargetIndex - 1)
      \o [q \in 1..Len(TextElements) |-> TextElements[q].id]
      \o SubSeq(OriginalSiblings, TargetIndex + 1, Len(OriginalSiblings))

\* Control is back in main, after split_xml_node returned or raised.
BackInCaller ==
  /\ pc \in {"store", "display", "explain", "done"}
  /\ xml_content # NoDoc
  /\ node_path # NoPath

\* C6: the tree is changed only once the categorization response has been
\* received and parsed, and whenever control is back with the caller the
\* split has either failed with the tree as it was entered and no document
\* returned, or returned the serialization of the fully spliced tree.
C6_NoPartialCommit ==
  /\ [](BackInCaller =>
          \/ /\ err # NoError
             /\ root = xml_content
             /\ new_xml = NoText
          \/ /\ err = NoError
             /\ FullySpliced
             /\ new_xml = tostring(root, RootId))
  /\ [][(root' # root /\ pc \notin {"idle", "done"}) =>
          /\ pc \in {"remove", "insert"}
          /\ calls # <<>>
          /\ calls[1].outcome = "ok"
          /\ fromstring(split_content).ok
          /\ split_root = fromstring(split_content).elems]_vars

\* The target has been removed and a replacement is still to be inserted:
\* control is inside split_xml_node.
C6_Witness ==
  /\ pc = "insert"
  /\ cursor = 1
  /\ Len(TextElements) = 2
  /\ node \notin Range(CurrentSiblings)

\* C7: when the split succeeded and the explanation request fails, the
\* split stays a success: the document returned is still stored and shown,
\* and no failure of the split is reported.
C7_ExplanationAdvisory ==
  (/\ pc = "done"
   /\ Len(calls) = 2
   /\ calls[2].outcome \in GatewayFailures)
  => /\ err = NoError
     /\ new_xml = tostring(root, RootId)
     /\ store # <<>>
     /\ store[Len(store)].document = new_xml
     /\ \E i \in 1..Len(ui) : ui[i] = [kind |-> "result", text |-> new_xml]
     /\ \A i \in 1..Len(ui) : ui[i].kind = "error" => ui[i].text \in GatewayFailures

\* The explanation request met a transport error after a split that
\* inserted an element.
C7_Witness ==
  /\ pc = "done"
  /\ Len(calls) = 2
  /\ calls[2].outcome = "transport"
  /\ Replacements # <<>>

\* C8: one split sends at most two requests, the categorization first and
\* the explanation only after the split returned; a failed categorization
\* request is ModelUnavailable at once and no request follows it; a failed
\* request of either kind is shown and is the last request of the split.
C8_GatewayCalls ==
  /\ Len(calls) <= 2
  /\ calls # <<>> => calls[1].purpose = "categorize"
  /\ Len(calls) = 2 =>
       /\ calls[2].purpose = "explain"
       /\ calls[1].outcome = "ok"
       /\ fromstring(split_content).ok
       /\ SplitReturned
       /\ FullySpliced
  /\ (calls # <<>> /\ calls[1].outcome \in GatewayFailures) =>
       /\ Len(calls) = 1
       /\ pc = "done"
       /\ err = ModelUnavailable
       /\ root = xml_content
  /\ \A i \in 1..Len(calls) :
       calls[i].outcome \in GatewayFailures =>
         /\ i = Len(calls)
         /\ pc = "done"
         /\ \E j \in 1..Len(ui) :
              ui[j].kind = "error" /\ ui[j].text = calls[i].outcome

\* The categorization request came back with a bad status.
C8_Witness ==
  /\ calls = <<[purpose |-> "categorize", outcome |-> "status"]>>
  /\ pc = "done"
  /\ err = ModelUnavailable

\* The elements the path matches in the document as entered.
Matches == xpath(xml_content, node_path)

DocumentOrder == Preorder(xml_content, RootId)

\* Element m is as it was: in the tree, under the same parent, with the
\* same text, and in the same order with the siblings that were not split.
Untouched(m) ==
  /\ m \in Subtree(root, RootId)
  /\ root[m].parent = xml_content[m].parent
  /\ root[m].text = xml_content[m].text
  /\ root[m].tag = xml_content[m].tag
  /\ (m # RootId =>
        SelectSeq(root[root[m].parent].kids, LAMBDA c : ~FromResponse(c))
          = Remove(xml_content[xml_content[m].parent].kids, node))

\* C9 as claimed: the first match in document order is split and every
\* other matching element is left in the tree unchanged.
C9_OtherMatchesUntouched ==
  SplitReturned =>
    /\ \A m \in Range(Matches) :
         Position(DocumentOrder, node) <= Position(DocumentOrder, m)
    /\ node \notin Subtree(root, RootId)
    /\ \A m \in Range(Matches) \ {node} : Untouched(m)

\* C9 as amended: the first match in document order is split and every
\* other matching element outside the target's subtree is left in the tree
\* unchanged.
C9_MatchesOutsideTargetUntouched ==
  SplitReturned =>
    /\ \A m \in Range(Matches) :
         Position(DocumentOrder, node) <= Position(DocumentOrder, m)
    /\ node \notin Subtree(root, RootId)
    /\ \A m \in Range(Matches) \ Subtree(xml_content, node) : Untouched(m)

\* Two siblings matched; the first was split and the second is still there.
C9_Witness ==
  /\ SplitReturned
  /\ Len(Matches) = 2
  /\ Matches[2] \in Range(OriginalSiblings)
  /\ Matches[2] \in Range(CurrentSiblings)
  /\ Replacements # <<>>

\* C10: the store gets a record exactly when a split has returned its
\* document (one record, holding that document), a split that failed adds
\* none, and the ids of the records are pairwise distinct.
C10_StoreRecords ==
  /\ [](/\ \A i, j \in 1..Len(store) : i # j => store[i].id # store[j].id
        /\ Len(store) <= runs
        /\ (pc \in {"display", "explain", "done"} /\ node # 0 /\ err = NoError) =>
             /\ store # <<>>
             /\ store[Len(store)].document = new_xml
             /\ store[Len(store)].metadata.node_path = node_path.text
        /\ err # NoError => pc = "done")
  /\ [][/\ store' # store =>
             /\ pc = "store"
             /\ err = NoError
             /\ new_xml = tostring(root, RootId)
             /\ \E rec \in {store'[Len(store')]} :
                  /\ store' = Append(store, rec)
                  /\ rec.document = new_xml
        /\ pc = "store" => Len(store') = Len(store) + 1
        /\ err' # NoError => store' = store]_vars

\* Two splits with the same path were stored and a third click failed.
C10_Witness ==
  /\ Len(store) >= 2
  /\ store[1].metadata.node_path = store[2].metadata.node_path
  /\ runs = 3
  /\ pc = "done"
  /\ err # NoError

=============================================================================
